---- MODULE Spec2Model ----
(***************************************************************************)
(* Model of the weather application's alert classifier,                    *)
(* WeatherService.analyze_extreme_conditions (weather_service.py).         *)
(*                                                                         *)
(* Numbers.  The Python code works on floats.  Every measurement is        *)
(* modelled as an integer count of 1/Scale units (fixed point), and a      *)
(* normalised value (Celsius, metres per second) as an exact fraction      *)
(* [num, den] of such units, compared with a threshold by cross            *)
(* multiplication.  On the input grids used here (metric values with one   *)
(* decimal, their exact imperial images, and those rounded to one          *)
(* decimal) the float computation and the exact one take the same branch   *)
(* at every threshold.                                                     *)
(*                                                                         *)
(* Dictionaries are functions whose domain is the set of keys present;     *)
(* lists are sequences.                                                    *)
(***************************************************************************)
EXTENDS Integers, Sequences, FiniteSets, TLC

\* one call of the classifier
VARIABLES data, unit, pc, result
\* several calls: the observations the callers hold, the list objects
\* allocated so far, and the calls made
VARIABLES observations, heap, calls

\* one fetch, WeatherService.get_weather: its argument, the request
\* parameters it built, the requests sent, what the request met, its
\* position and its outcome
VARIABLES city, params, sent, response, fetch_pc, fetch_result

\* the application: the WeatherApp object (its attributes and the state
\* of its controls), the coroutines handed to page.run_task, the history
\* file, the number of coroutines handed over so far, and the last
\* operation that took a step
VARIABLES app, tasks, history_file, handed, last_op

classifierVars == <<data, unit, pc, result>>
callVars == <<observations, heap, calls>>
fetchVars == <<city, params, sent, response, fetch_pc, fetch_result>>

appVars == <<app, tasks, history_file, handed, last_op>>

vars == <<classifierVars, callVars, fetchVars, appVars>>

\* the parts of the state a specification does not use stay as they are here
CallsIdle == observations = <<>> /\ heap = <<>> /\ calls = <<>>
FetchIdle ==
    /\ city = <<>> /\ params = <<>> /\ sent = <<>> /\ response = <<>>
    /\ fetch_pc = "idle" /\ fetch_result = <<>>
AppIdle ==
    /\ app = <<>> /\ tasks = <<>> /\ history_file = <<>>
    /\ handed = 0 /\ last_op = <<>>

\* Fixed-point resolution: a measurement v stands for v / Scale.
Scale == 10 * 1000

\* x tenths as a measurement: Tenths(349) is 34.9
Tenths(x) == x * (Scale \div 10)

\* ------------------------------------------------------------------------
\* dict.get and the fractions used for the normalised values

EmptyDict == [k \in {} |-> 0]

\* d.get(key, default)
Get(d, key, default) == IF key \in DOMAIN d THEN d[key] ELSE default

\* the fraction num/den (den > 0) of 1/Scale units
Frac(num, den) == [num |-> num, den |-> den]

\* The comparison >= written as >.
Geq_Strict(r, k) == r.num > k * Scale * r.den

\* The comparison <= written as <.
Leq_Strict(r, k) == r.num < k * Scale * r.den

\* r >= k and r <= k for a fraction r and an integer threshold k
Geq(r, k) == r.num >= k * Scale * r.den
Leq(r, k) == r.num <= k * Scale * r.den

\* f"{v:.1f}": the value rounded to one decimal, as a count of tenths
\* (the input grids hold no value halfway between two tenths)
Fmt1(v) == (v + (Scale \div 20)) \div (Scale \div 10)

\* ------------------------------------------------------------------------
\* weather_service.py 69-73: the fields read from the observation

temp_of(d) == Get(Get(d, "main", EmptyDict), "temp", 0)
feels_like_of(d) == Get(Get(d, "main", EmptyDict), "feels_like", 0)
humidity_of(d) == Get(Get(d, "main", EmptyDict), "humidity", 0)
wind_speed_of(d) == Get(Get(d, "wind", EmptyDict), "speed", 0)

\* data.get("weather", [{}])
weather_list(d) == Get(d, "weather", <<EmptyDict>>)

\* data.get("weather", [{}])[0] raises IndexError on an empty list
RaisesIndexError(d) == Len(weather_list(d)) = 0

\* data.get("weather", [{}])[0].get("id", 800), where the index is valid
weather_id_of(d) == Get(weather_list(d)[1], "id", 800)

\* The conversion with the offset of 32 forgotten.
ToCelsius_NoOffset(v, u) ==
    IF u = "imperial" THEN Frac(v * 5, 9) ELSE Frac(v, 1)

\* weather_service.py 76-81: Celsius for consistent threshold checking
ToCelsius(v, u) ==
    IF u = "imperial" THEN Frac((v - 32 * Scale) * 5, 9) ELSE Frac(v, 1)

\* The wind speed taken as m/s whatever the unit.
ToMps_NoConversion(v, u) == Frac(v, 1)

\* weather_service.py 178: wind speed in m/s
ToMps(v, u) ==
    IF u = "metric" THEN Frac(v, 1) ELSE Frac(v * 1000, 2237)

\* The unit symbols the wrong way round.
TempSymbol_Swapped(u) == IF u = "imperial" THEN "C" ELSE "F"

TempSymbol(u) == IF u = "imperial" THEN "F" ELSE "C"
WindSymbol(u) == IF u = "imperial" THEN "mph" ELSE "m/s"

\* One alert dictionary.  The message is the source's without its emoji.
Alert(type, severity, message, description, recommendation, icon, color, bg) ==
    [type |-> type, severity |-> severity, message |-> message,
     description |-> description, recommendation |-> recommendation,
     icon |-> icon, color |-> color, bg_color |-> bg]

\* f"<text> {value:.1f}<symbol>" and the like
Desc(text, value, symbol) == [text |-> text, value |-> value, symbol |-> symbol]

\* a description without a measurement
PlainDesc(text) == [text |-> text]

\* ------------------------------------------------------------------------
\* weather_service.py 84-127: temperature alerts (if / elif chain)
temperature_alerts(temp, temp_c, u) ==
    IF Geq(temp_c, 35) THEN
        <<Alert("temperature", "high", "Extreme Heat Warning",
                Desc("Temperature is", Fmt1(temp), TempSymbol(u)),
                "Stay hydrated, avoid direct sun, and wear lightweight clothing",
                "WARNING_AMBER", "RED_700", "RED_50")>>
    ELSE IF Geq(temp_c, 30) THEN
        <<Alert("temperature", "moderate", "High Temperature",
                Desc("Temperature is", Fmt1(temp), TempSymbol(u)),
                "Wear sunscreen and stay hydrated",
                "WB_SUNNY", "ORANGE_700", "ORANGE_50")>>
    ELSE IF Leq(temp_c, -10) THEN
        <<Alert("temperature", "high", "Extreme Cold Warning",
                Desc("Temperature is", Fmt1(temp), TempSymbol(u)),
                "Wear multiple layers, cover exposed skin, and limit outdoor time",
                "AC_UNIT", "BLUE_700", "BLUE_50")>>
    ELSE IF Leq(temp_c, 0) THEN
        <<Alert("temperature", "moderate", "Freezing Temperature",
                Desc("Temperature is", Fmt1(temp), TempSymbol(u)),
                "Wear warm clothing and watch for ice on roads",
                "AC_UNIT", "CYAN_700", "CYAN_50")>>
    ELSE <<>>

\* The feels-like chain with the wind-chill record given severity moderate.
feels_like_alerts_ModerateChill(feels_like, feels_like_c, u) ==
    IF Geq(feels_like_c, 40) THEN
        <<Alert("feels_like", "high", "Dangerous Heat Index",
                Desc("Feels like", Fmt1(feels_like), TempSymbol(u)),
                "Avoid strenuous activity, seek air conditioning, drink plenty of water",
                "LOCAL_FIRE_DEPARTMENT", "DEEP_ORANGE_700", "DEEP_ORANGE_50")>>
    ELSE IF Leq(feels_like_c, -20) THEN
        <<Alert("feels_like", "moderate", "Extreme Wind Chill",
                Desc("Feels like", Fmt1(feels_like), TempSymbol(u)),
                "Limit time outdoors, cover all exposed skin, frostbite risk is high",
                "AIR", "INDIGO_700", "INDIGO_50")>>
    ELSE <<>>

\* weather_service.py 130-151: feels-like alerts (wind chill / heat index)
feels_like_alerts(feels_like, feels_like_c, u) ==
    IF Geq(feels_like_c, 40) THEN
        <<Alert("feels_like", "high", "Dangerous Heat Index",
                Desc("Feels like", Fmt1(feels_like), TempSymbol(u)),
                "Avoid strenuous activity, seek air conditioning, drink plenty of water",
                "LOCAL_FIRE_DEPARTMENT", "DEEP_ORANGE_700", "DEEP_ORANGE_50")>>
    ELSE IF Leq(feels_like_c, -20) THEN
        <<Alert("feels_like", "high", "Extreme Wind Chill",
                Desc("Feels like", Fmt1(feels_like), TempSymbol(u)),
                "Limit time outdoors, cover all exposed skin, frostbite risk is high",
                "AIR", "INDIGO_700", "INDIGO_50")>>
    ELSE <<>>

\* The humidity chain with humidity > 90 for humidity >= 90.
humidity_alerts_Strict(humidity) ==
    IF humidity > 90 THEN
        <<Alert("humidity", "moderate", "Very High Humidity",
                Desc("Humidity is", humidity, "%"),
                "Stay hydrated and avoid strenuous activity",
                "WATER_DROP", "TEAL_700", "TEAL_50")>>
    ELSE IF humidity <= 20 THEN
        <<Alert("humidity", "moderate", "Low Humidity",
                Desc("Humidity is", humidity, "%"),
                "Use moisturizer and stay hydrated",
                "WATER_DROP", "AMBER_700", "AMBER_50")>>
    ELSE <<>>

\* weather_service.py 154-175: humidity alerts.  The humidity is a whole
\* percentage, kept and printed as it is.
humidity_alerts(humidity) ==
    IF humidity >= 90 THEN
        <<Alert("humidity", "moderate", "Very High Humidity",
                Desc("Humidity is", humidity, "%"),
                "Stay hydrated and avoid strenuous activity",
                "WATER_DROP", "TEAL_700", "TEAL_50")>>
    ELSE IF humidity <= 20 THEN
        <<Alert("humidity", "moderate", "Low Humidity",
                Desc("Humidity is", humidity, "%"),
                "Use moisturizer and stay hydrated",
                "WATER_DROP", "AMBER_700", "AMBER_50")>>
    ELSE <<>>

\* weather_service.py 178-200: wind speed alerts (m/s)
wind_alerts(wind_speed, u) ==
    LET wind_mps == ToMps(wind_speed, u) IN
    IF Geq(wind_mps, 20) THEN
        <<Alert("wind", "high", "High Wind Warning",
                Desc("Wind speed is", Fmt1(wind_speed), WindSymbol(u)),
                "Secure loose objects, avoid outdoor activities",
                "AIR", "PURPLE_700", "PURPLE_50")>>
    ELSE IF Geq(wind_mps, 10) THEN
        <<Alert("wind", "moderate", "Windy Conditions",
                Desc("Wind speed is", Fmt1(wind_speed), WindSymbol(u)),
                "Hold onto hats and lightweight items",
                "AIR", "BLUE_GREY_700", "BLUE_GREY_50")>>
    ELSE <<>>

\* The condition chain with the light-rain exclusion of 500 and 501 left out.
condition_alerts_AllRain(weather_id) ==
    IF 200 <= weather_id /\ weather_id < 300 THEN
        <<Alert("storm", "high", "Thunderstorm Alert",
                PlainDesc("Thunderstorm in the area"),
                "Seek indoor shelter, avoid open areas and tall objects",
                "FLASH_ON", "DEEP_PURPLE_700", "DEEP_PURPLE_50")>>
    ELSE IF 500 <= weather_id /\ weather_id < 600 THEN
        <<Alert("rain", "moderate", "Heavy Rain",
                PlainDesc("Heavy rainfall expected"),
                "Bring an umbrella, use caution when driving",
                "BEACH_ACCESS", "BLUE_700", "BLUE_50")>>
    ELSE IF 600 <= weather_id /\ weather_id < 700 THEN
        <<Alert("snow", IF weather_id < 602 THEN "moderate" ELSE "high", "Snow Alert",
                PlainDesc("Snowfall expected"),
                "Allow extra travel time, drive cautiously",
                "AC_UNIT", "LIGHT_BLUE_700", "LIGHT_BLUE_50")>>
    ELSE IF 700 <= weather_id /\ weather_id < 800 THEN
        <<Alert("fog", "moderate", "Reduced Visibility",
                PlainDesc("Fog or mist reducing visibility"),
                "Use low beam headlights, drive slowly",
                "FOGGY", "GREY_700", "GREY_50")>>
    ELSE <<>>

\* weather_service.py 204-253: condition alerts on the OpenWeatherMap id
condition_alerts(weather_id) ==
    IF 200 <= weather_id /\ weather_id < 300 THEN
        <<Alert("storm", "high", "Thunderstorm Alert",
                PlainDesc("Thunderstorm in the area"),
                "Seek indoor shelter, avoid open areas and tall objects",
                "FLASH_ON", "DEEP_PURPLE_700", "DEEP_PURPLE_50")>>
    ELSE IF 500 <= weather_id /\ weather_id < 600 /\ weather_id \notin {500, 501} THEN
        <<Alert("rain", "moderate", "Heavy Rain",
                PlainDesc("Heavy rainfall expected"),
                "Bring an umbrella, use caution when driving",
                "BEACH_ACCESS", "BLUE_700", "BLUE_50")>>
    ELSE IF 600 <= weather_id /\ weather_id < 700 THEN
        <<Alert("snow", IF weather_id < 602 THEN "moderate" ELSE "high", "Snow Alert",
                PlainDesc("Snowfall expected"),
                "Allow extra travel time, drive cautiously",
                "AC_UNIT", "LIGHT_BLUE_700", "LIGHT_BLUE_50")>>
    ELSE IF 700 <= weather_id /\ weather_id < 800 THEN
        <<Alert("fog", "moderate", "Reduced Visibility",
                PlainDesc("Fog or mist reducing visibility"),
                "Use low beam headlights, drive slowly",
                "FOGGY", "GREY_700", "GREY_50")>>
    ELSE <<>>

\* The outcome of a call: the list returned, or the exception raised.
Returned(alerts) == [kind |-> "return", alerts |-> alerts]
Raised(exc) == [kind |-> "raise", exc |-> exc]

\* The call with the feels-like chain attached to the temperature chain by
\* an elif: it is evaluated only when no temperature alert was appended.
analyze_extreme_conditions_Chained(d, u) ==
    IF RaisesIndexError(d) THEN Raised("IndexError")
    ELSE
        LET temp == temp_of(d)
            feels_like == feels_like_of(d)
            temp_c == ToCelsius(temp, u)
            feels_like_c == ToCelsius(feels_like, u)
            first == temperature_alerts(temp, temp_c, u)
        IN Returned(first
                    \o (IF first = <<>> THEN feels_like_alerts(feels_like, feels_like_c, u)
                        ELSE <<>>)
                    \o humidity_alerts(humidity_of(d))
                    \o wind_alerts(wind_speed_of(d), u)
                    \o condition_alerts(weather_id_of(d)))

\* The call with the list sorted before it is returned, high severity first
\* (the sort that display_alerts applies, main.py 250-251).
analyze_extreme_conditions_Sorted(d, u) ==
    IF RaisesIndexError(d) THEN Raised("IndexError")
    ELSE
        LET temp == temp_of(d)
            feels_like == feels_like_of(d)
            alerts == temperature_alerts(temp, ToCelsius(temp, u), u)
                      \o feels_like_alerts(feels_like, ToCelsius(feels_like, u), u)
                      \o humidity_alerts(humidity_of(d))
                      \o wind_alerts(wind_speed_of(d), u)
                      \o condition_alerts(weather_id_of(d))
        IN Returned(SelectSeq(alerts, LAMBDA a : a.severity = "high")
                    \o SelectSeq(alerts, LAMBDA a : a.severity # "high"))

\* weather_service.py 58-255: the whole call.  The fields are read first
\* (line 73 raises on an empty 'weather' list), then each group appends
\* its record, in the order of the source.
analyze_extreme_conditions(d, u) ==
    IF RaisesIndexError(d) THEN Raised("IndexError")
    ELSE
        LET temp == temp_of(d)
            feels_like == feels_like_of(d)
            humidity == humidity_of(d)
            wind_speed == wind_speed_of(d)
            weather_id == weather_id_of(d)
            temp_c == ToCelsius(temp, u)
            feels_like_c == ToCelsius(feels_like, u)
        IN Returned(temperature_alerts(temp, temp_c, u)
                    \o feels_like_alerts(feels_like, feels_like_c, u)
                    \o humidity_alerts(humidity)
                    \o wind_alerts(wind_speed, u)
                    \o condition_alerts(weather_id))

\* ------------------------------------------------------------------------
\* The observations the calls are made on.

Units == {"metric", "imperial"}

\* exact unit conversions of a metric value, as the weather source reports
\* the same observation in imperial units
ToFahrenheit(c) == (c * 9) \div 5 + 32 * Scale
ToMph(w) == (w * 2237) \div 1000

\* a value rounded to one decimal
Round1(v) == Fmt1(v) * (Scale \div 10)

\* Celsius values on both sides of every temperature threshold
MetricTemps == {Tenths(x) : x \in {-100, -99, 0, 200, 299, 300, 349, 350, 360}}
MetricFeels == {Tenths(x) : x \in {-200, -199, 200, 399, 400}}
\* m/s values on both sides of every wind threshold
MetricWinds == {Tenths(x) : x \in {20, 99, 100, 199, 200, 250}}
Humidities == {20, 21, 50, 89, 90, 95, 100}
\* condition ids on both sides of every band edge
ConditionIds == {199, 200, 202, 299, 300, 499, 500, 501, 502, 599,
                 600, 601, 602, 699, 700, 799, 800}

TempValues(u) ==
    IF u = "metric" THEN MetricTemps ELSE {ToFahrenheit(c) : c \in MetricTemps}
FeelsValues(u) ==
    IF u = "metric" THEN MetricFeels ELSE {ToFahrenheit(c) : c \in MetricFeels}
\* imperial wind speeds: the exact images and the images rounded to 0.1 mph
WindValues(u) ==
    IF u = "metric" THEN MetricWinds
    ELSE {ToMph(w) : w \in MetricWinds} \cup {Round1(ToMph(w)) : w \in MetricWinds}

\* the dictionaries with the key absent, or present with a value of vals
Optional(key, vals) == {EmptyDict} \cup {[k \in {key} |-> v] : v \in vals}

\* longest 'weather' list modelled, beyond its first element
MaxExtra == 1

WeatherElements == {EmptyDict} \cup {[k \in {"id"} |-> c] : c \in ConditionIds}

\* n further elements after the first; the code never reads them
Extra(n) == [i \in 1..n |-> [k \in {"id"} |-> 202]]

WeatherLists ==
    {<<>>} \cup {<<e>> : e \in WeatherElements}
           \cup {<<e>> \o Extra(n) : e \in {[k \in {"id"} |-> 800]},
                                     n \in 1..MaxExtra}

MainDicts(u) ==
    {t @@ f @@ h : t \in Optional("temp", TempValues(u)),
                   f \in Optional("feels_like", FeelsValues(u)),
                   h \in Optional("humidity", Humidities)}

Observations(u) ==
    {m @@ w @@ c : m \in Optional("main", MainDicts(u)),
                   w \in Optional("wind", Optional("speed", WindValues(u))),
                   c \in Optional("weather", WeatherLists)}

\* ------------------------------------------------------------------------
\* The state machine: a caller holds an observation and a unit and calls
\* the classifier once.

Pending == [kind |-> "pending"]

Init ==
    /\ unit \in Units
    /\ data \in Observations(unit)
    /\ pc = "call"
    /\ result = Pending
    /\ CallsIdle
    /\ FetchIdle
    /\ AppIdle

\* main.py 377-380 / 296-299: the call, to its return or its exception
Analyze ==
    /\ pc = "call"
    /\ result' = analyze_extreme_conditions(data, unit)
    /\ pc' = "done"
    /\ UNCHANGED <<data, unit>>
    /\ UNCHANGED <<callVars, fetchVars, appVars>>

Next == Analyze

Spec == Init /\ [][Next]_vars

ClassifierIdle == data = EmptyDict /\ unit = "metric" /\ pc = "idle" /\ result = Pending

\* ------------------------------------------------------------------------
\* Several calls.  Callers hold observation objects and call the classifier
\* any number of times, in any order; between calls a caller may change a
\* list it was given earlier.  A list is an object on the heap: 'alerts = []'
\* (weather_service.py 68) allocates one, the appends extend it, and
\* 'return alerts' hands out the reference.

\* most calls made in one behaviour
MaxCalls == 3

\* the observation objects: a normal one, one whose moderate record comes
\* before a high one, and one with an empty 'weather' list
CallObservations ==
    << [main |-> [temp |-> 20 * Scale, feels_like |-> 20 * Scale, humidity |-> 50],
        wind |-> [speed |-> 2 * Scale], weather |-> <<[id |-> 800]>>],
       [main |-> [temp |-> 32 * Scale, feels_like |-> 32 * Scale, humidity |-> 50],
        wind |-> [speed |-> 50 * Scale], weather |-> <<[id |-> 800]>>],
       [main |-> [temp |-> 20 * Scale], weather |-> <<>>] >>

\* a list object shared by all calls, as a list kept on the class or in a
\* default argument would be
AllocList_Shared(h) ==
    IF h = <<>> THEN [ref |-> 1, heap |-> <<(<<>>)>>]
    ELSE [ref |-> 1, heap |-> h]

\* weather_service.py 68: alerts = [] makes a new, empty list object
AllocList(h) == [ref |-> Len(h) + 1, heap |-> Append(h, <<>>)]

\* main.py 250-251: alerts.sort(key=lambda x: 0 if x["severity"] == "high"
\* else 1), a stable sort
SortBySeverity(alerts) ==
    SelectSeq(alerts, LAMBDA a : a.severity = "high")
    \o SelectSeq(alerts, LAMBDA a : a.severity # "high")

CallsInit ==
    /\ observations = CallObservations
    /\ heap = <<>>
    /\ calls = <<>>
    /\ ClassifierIdle
    /\ FetchIdle
    /\ AppIdle

\* weather_service.py 58-255 on observation object o with unit u: the list
\* is allocated (68), the fields are read (69-73, where an empty 'weather'
\* list raises), the records are appended and the list is returned (255)
Call(o, u) ==
    /\ Len(calls) < MaxCalls
    /\ LET new == AllocList(heap)
           outcome == analyze_extreme_conditions(observations[o], u)
       IN IF outcome.kind = "raise"
          THEN /\ heap' = new.heap
               /\ calls' = Append(calls, [obs |-> o, data |-> observations[o], unit |-> u,
                                          outcome |-> outcome, ref |-> 0])
          ELSE /\ heap' = [new.heap EXCEPT ![new.ref] = @ \o outcome.alerts]
               /\ calls' = Append(calls, [obs |-> o, data |-> observations[o], unit |-> u,
                                          outcome |-> Returned(heap'[new.ref]),
                                          ref |-> new.ref])
    /\ UNCHANGED observations
    /\ UNCHANGED <<classifierVars, fetchVars, appVars>>

\* the caller that was given list r sorts it in place (main.py 250-251)
SortResult(r) ==
    /\ r \in DOMAIN heap
    /\ heap[r] # SortBySeverity(heap[r])
    /\ heap' = [heap EXCEPT ![r] = SortBySeverity(@)]
    /\ UNCHANGED <<observations, calls>>
    /\ UNCHANGED <<classifierVars, fetchVars, appVars>>

\* the caller that was given list r empties it (main.py 247 does this to
\* the list of banners)
ClearResult(r) ==
    /\ r \in DOMAIN heap
    /\ heap[r] # <<>>
    /\ heap' = [heap EXCEPT ![r] = <<>>]
    /\ UNCHANGED <<observations, calls>>
    /\ UNCHANGED <<classifierVars, fetchVars, appVars>>

CallsNext ==
    \/ \E o \in DOMAIN observations, u \in Units : Call(o, u)
    \/ \E r \in DOMAIN heap : SortResult(r)
    \/ \E r \in DOMAIN heap : ClearResult(r)

CallsSpec == CallsInit /\ [][CallsNext]_vars

\* ------------------------------------------------------------------------
\* One fetch: WeatherService.get_weather(city) (weather_service.py 20-55).
\* A city name is a sequence of characters.  The weather source answers a
\* request with a response (a status and a body), or the request fails in
\* transport, or something else goes wrong inside the try block.

\* longest city name modelled
MaxCityLen == 3

Whitespace == {" "}
Characters == Whitespace \cup {"a", "b"}

RECURSIVE LStrip(_)
LStrip(s) == IF s # <<>> /\ Head(s) \in Whitespace THEN LStrip(Tail(s)) ELSE s

RECURSIVE RStrip(_)
RStrip(s) ==
    IF s # <<>> /\ s[Len(s)] \in Whitespace THEN RStrip(SubSeq(s, 1, Len(s) - 1))
    ELSE s

\* str.strip() taken for the identity
Strip_Identity(s) == s

\* str.strip(): leading and trailing whitespace removed
Strip(s) == RStrip(LStrip(s))

Cities == UNION {[1..n -> Characters] : n \in 0..MaxCityLen}

\* the observation a successful response carries
FetchedData ==
    [main |-> [temp |-> 20 * Scale, feels_like |-> 20 * Scale, humidity |-> 50],
     wind |-> [speed |-> 2 * Scale], weather |-> <<[id |-> 800]>>]

\* what awaiting client.get, raise_for_status and response.json can meet
Responses ==
    {[kind |-> "response", status |-> st, json |-> ok] :
         st \in {200, 301, 401, 404, 429, 500}, ok \in BOOLEAN}
    \cup {[kind |-> "RequestError", text |-> e] : e \in {"ConnectError", "ReadTimeout"}}
    \cup {[kind |-> "Exception", text |-> e] : e \in {"RuntimeError"}}

\* response.raise_for_status() raises HTTPStatusError unless the status is 2xx
IsSuccess(st) == st \in 200..299

\* the outcome of a fetch that returned the dict d
ReturnedData(d) == [kind |-> "return", data |-> d]

WeatherServiceError(message) == [type |-> "WeatherServiceError", message |-> message]

\* the handlers with the 404 test left out
HandleResponse_No404(c, r) ==
    IF r.kind = "response"
    THEN IF ~IsSuccess(r.status)
         THEN Raised(WeatherServiceError(<<"API error: ", r.status>>))
         ELSE IF r.json
              THEN ReturnedData(FetchedData)
              ELSE Raised(WeatherServiceError(<<"Unexpected error: ", "JSONDecodeError">>))
    ELSE IF r.kind = "RequestError"
         THEN Raised(WeatherServiceError(<<"Request failed: ", r.text>>))
         ELSE Raised(WeatherServiceError(<<"Unexpected error: ", r.text>>))

\* weather_service.py 42-55: the try block and its three handlers, for the
\* city c and what the request met
HandleResponse(c, r) ==
    IF r.kind = "response"
    THEN IF ~IsSuccess(r.status)
         THEN \* except httpx.HTTPStatusError (47-51)
              IF r.status = 404
              THEN Raised(WeatherServiceError(<<"City '", c, "' not found">>))
              ELSE Raised(WeatherServiceError(<<"API error: ", r.status>>))
         ELSE IF r.json
              THEN ReturnedData(FetchedData)
              ELSE \* response.json() raises a ValueError: except Exception (54-55)
                   Raised(WeatherServiceError(<<"Unexpected error: ", "JSONDecodeError">>))
    ELSE IF r.kind = "RequestError"
         THEN \* except httpx.RequestError (52-53)
              Raised(WeatherServiceError(<<"Request failed: ", r.text>>))
         ELSE \* except Exception (54-55)
              Raised(WeatherServiceError(<<"Unexpected error: ", r.text>>))

FetchInit ==
    /\ city \in Cities
    /\ params = <<>>
    /\ sent = <<>>
    /\ response = <<>>
    /\ fetch_pc = "start"
    /\ fetch_result = <<>>
    /\ ClassifierIdle
    /\ CallsIdle
    /\ AppIdle

\* weather_service.py 32-39: the empty-name test, then the parameters
CheckCity ==
    /\ fetch_pc = "start"
    /\ IF Strip(city) = <<>>
       THEN /\ fetch_result' = Raised(WeatherServiceError(<<"City name cannot be empty">>))
            /\ fetch_pc' = "done"
            /\ UNCHANGED params
       ELSE /\ params' = [q |-> Strip(city)]
            /\ fetch_pc' = "send"
            /\ UNCHANGED fetch_result
    /\ UNCHANGED <<city, sent, response>>
    /\ UNCHANGED <<classifierVars, callVars, appVars>>

\* weather_service.py 41-43: the client is opened and the request goes out
SendRequest ==
    /\ fetch_pc = "send"
    /\ sent' = Append(sent, params)
    /\ fetch_pc' = "await"
    /\ UNCHANGED <<city, params, response, fetch_result>>
    /\ UNCHANGED <<classifierVars, callVars, appVars>>

\* weather_service.py 43-55: the await ends, with a response or a failure
Receive(r) ==
    /\ fetch_pc = "await"
    /\ response' = r
    /\ fetch_result' = HandleResponse(city, r)
    /\ fetch_pc' = "done"
    /\ UNCHANGED <<city, params, sent>>
    /\ UNCHANGED <<classifierVars, callVars, appVars>>

FetchNext ==
    \/ CheckCity
    \/ SendRequest
    \/ \E r \in Responses : Receive(r)

FetchSpec == FetchInit /\ [][FetchNext]_vars

\* ------------------------------------------------------------------------
\* The application (main.py).  'app' is the WeatherApp object: its
\* attributes, and of each control the properties the handlers write.  The
\* methods are operators from the object before the call to the object
\* after it.  Handlers that are plain functions run to completion in one
\* step; a coroutine runs in one step from one await to the next.

None == [none |-> TRUE]

\* the history file absent, or holding a saved list
NoFile == [exists |-> FALSE]
SavedFile(history) == [exists |-> TRUE, content |-> history]

\* main.py 624: the history keeps its first ten entries
HistoryLimit == 10

Range(seq) == {seq[i] : i \in DOMAIN seq}

Min(a, b) == IF a <= b THEN a ELSE b

\* Python truth value of a dict
Truthy(d) == d # EmptyDict

\* main.py 602-610
load_history(file) == IF file.exists THEN file.content ELSE <<>>

\* main.py 12-31 and the controls' defaults in build_ui (44-173)
NewApp(file, voice) ==
    [search_history |-> load_history(file),
     current_unit |-> "metric",
     current_weather_data |-> None,
     is_listening |-> FALSE,
     current_alerts |-> <<>>,
     voice_enabled |-> voice,
     city_input |-> <<>>,
     voice_button |-> "MIC",
     voice_feedback_checkbox |-> TRUE,
     alerts_checkbox |-> TRUE,
     alerts_container |-> FALSE,
     controls |-> <<>>,
     weather_container |-> FALSE,
     weather_content |-> None,
     error_message |-> FALSE,
     error_value |-> <<>>,
     voice_status |-> FALSE,
     loading |-> FALSE,
     info_text |-> TRUE]

\* show_error that sets the message and leaves the containers alone
show_error_MessageOnly(s, message) ==
    [s EXCEPT !.error_value = message, !.error_message = TRUE]

\* main.py 592-599
show_error(s, message) ==
    [s EXCEPT !.error_value = message,
              !.error_message = TRUE,
              !.weather_container = FALSE,
              !.alerts_container = FALSE,
              !.info_text = TRUE]

\* main.py 415-544, of the content the temperature line only (478):
\* f"{temp:.1f}{unit_symbol}", the temperature converted to Fahrenheit when
\* the current unit is imperial.  Line 427 raises on an empty 'weather'
\* list; the callers test RaisesIndexError first.
display_weather(s, d) ==
    LET temp == temp_of(d)
        shown == IF s.current_unit = "imperial" THEN ToFahrenheit(temp) ELSE temp
    IN [s EXCEPT !.weather_content = [value |-> Fmt1(shown),
                                      symbol |-> TempSymbol(s.current_unit)],
                 !.weather_container = TRUE,
                 !.error_message = FALSE,
                 !.info_text = FALSE]

Header == [control |-> "header"]
create_alert_banner(alert) == [control |-> "banner", alert |-> alert]

\* main.py 240-269.  The list is sorted in place (250-251): 'alerts' is the
\* list after the call, 'app' the object after it.
display_alerts(s, alerts) ==
    IF ~s.alerts_checkbox \/ alerts = <<>>
    THEN [app |-> [s EXCEPT !.alerts_container = FALSE, !.controls = <<>>],
          alerts |-> alerts]
    ELSE LET sorted == SortBySeverity(alerts)
         IN [app |-> [s EXCEPT !.controls = <<Header>> \o
                                   [i \in DOMAIN sorted |-> create_alert_banner(sorted[i])],
                               !.alerts_container = TRUE],
             alerts |-> sorted]

\* self.display_alerts(self.current_alerts): the list passed is the one the
\* attribute refers to, so the attribute sees the sort
display_current_alerts(s) ==
    LET r == display_alerts(s, s.current_alerts)
    IN [r.app EXCEPT !.current_alerts = r.alerts]

\* add_to_history that moves a city already present to the front
add_to_history_MoveToFront(s, c) ==
    LET rest == SelectSeq(s.search_history, LAMBDA x : x # c)
        grown == <<c>> \o rest
    IN [s EXCEPT !.search_history = SubSeq(grown, 1, Min(Len(grown), HistoryLimit))]

\* main.py 620-625
add_to_history(s, c) ==
    IF c \notin Range(s.search_history)
    THEN LET grown == <<c>> \o s.search_history
         IN [s EXCEPT !.search_history = SubSeq(grown, 1, Min(Len(grown), HistoryLimit))]
    ELSE s

\* main.py 612-618, called by add_to_history when it added the city
save_history(file, before, after) ==
    IF after.search_history # before.search_history
    THEN SavedFile(after.search_history)
    ELSE file

\* A coroutine handed to page.run_task: which method, where it stands,
\* the local 'city' of get_weather, and how get_weather ended.
NewTask(kind) == [kind |-> kind, pc |-> "scheduled", city |-> <<>>, outcome |-> "none"]

\* most coroutines handed to run_task in one behaviour
MaxTasks == 2

\* what the user can type, what the recogniser can hear
TypedCities == {<<>>, <<" ", "a">>}
HeardCities == {<<"b">>}

\* what the weather source can answer in the application
AppObservations == Range(CallObservations)
FetchOutcomes(c) ==
    {ReturnedData(d) : d \in AppObservations}
    \cup {HandleResponse(c, [kind |-> "response", status |-> 404, json |-> TRUE])}

\* voice_service.py 47-83: the city heard, or VoiceServiceError; anything
\* else that awaiting the executor can raise
VoiceServiceError(message) == [type |-> "VoiceServiceError", message |-> message]
ListenOutcomes ==
    {ReturnedData(c) : c \in HeardCities}
    \cup {Raised(VoiceServiceError(<<"No speech detected. Please try again.">>)),
          Raised([type |-> "RuntimeError", message |-> <<"RuntimeError">>])}

\* main.py 354-369: get_weather up to its first await.  pc "done" says
\* that get_weather has returned.
get_weather_begin(s, t) ==
    LET c == Strip(s.city_input)
    IN IF c = <<>>
       THEN [app |-> show_error(s, <<"Please enter a city name">>),
             task |-> [t EXCEPT !.pc = "done", !.outcome = "empty_city"]]
       ELSE [app |-> [s EXCEPT !.loading = TRUE,
                               !.error_message = FALSE,
                               !.weather_container = FALSE,
                               !.alerts_container = FALSE,
                               !.info_text = FALSE],
             task |-> [t EXCEPT !.pc = "fetching", !.city = c]]

\* main.py 410-413
get_weather_finally(s) == [s EXCEPT !.loading = FALSE, !.voice_status = FALSE]

\* main.py 372-413: from the end of the fetch to the next await (speak,
\* 404) or to the return
get_weather_fetched(s, t, outcome) ==
    IF outcome.kind = "raise"
    THEN \* except WeatherServiceError (406-407)
         [app |-> get_weather_finally(show_error(s, outcome.exc.message)),
          task |-> [t EXCEPT !.pc = "done", !.outcome = "service_error"]]
    ELSE LET s1 == [s EXCEPT !.current_weather_data = outcome.data]
             analysis == analyze_extreme_conditions(outcome.data, s1.current_unit)
         IN IF analysis.kind = "raise"
            THEN \* except Exception (408-409)
                 [app |-> get_weather_finally(
                              show_error(s1, <<"Unexpected error: ", analysis.exc>>)),
                  task |-> [t EXCEPT !.pc = "done", !.outcome = "unexpected_error"]]
            ELSE LET s2 == [s1 EXCEPT !.current_alerts = analysis.alerts]
                     s3 == add_to_history(s2, t.city)
                     s4 == display_weather(s3, outcome.data)
                     s5 == display_current_alerts(s4)
                 IN IF s5.voice_enabled /\ s5.voice_feedback_checkbox
                    THEN [app |-> s5, task |-> [t EXCEPT !.pc = "speaking"]]
                    ELSE [app |-> get_weather_finally(s5),
                          task |-> [t EXCEPT !.pc = "done", !.outcome = "ok"]]

\* main.py 404-413: speak has ended
get_weather_spoken(s, t) ==
    [app |-> get_weather_finally(s),
     task |-> [t EXCEPT !.pc = "done", !.outcome = "ok"]]

\* main.py 319-327
voice_search_begin(s) ==
    [s EXCEPT !.is_listening = TRUE,
              !.voice_button = "MIC_NONE",
              !.voice_status = TRUE,
              !.error_message = FALSE]

\* voice_search without its finally block
voice_search_finally_Skipped(s) == s

\* main.py 347-352
voice_search_finally(s) == [s EXCEPT !.is_listening = FALSE, !.voice_button = "MIC"]

\* a step r of get_weather made for task t: when get_weather has returned
\* inside voice_search, voice_search runs on to its end (338-352)
Continue(r, t) ==
    IF t.kind = "voice_search" /\ r.task.pc = "done"
    THEN [app |-> voice_search_finally(r.app), task |-> r.task]
    ELSE r

\* main.py 329-352: the listen has ended
voice_search_heard(s, t, outcome) ==
    IF outcome.kind = "raise"
    THEN LET message == IF outcome.exc.type = "VoiceServiceError"
                        THEN outcome.exc.message
                        ELSE <<"Voice error: ">> \o outcome.exc.message
             s1 == [show_error(s, message) EXCEPT !.voice_status = FALSE]
         IN [app |-> voice_search_finally(s1),
             task |-> [t EXCEPT !.pc = "done", !.outcome = "voice_error"]]
    ELSE Continue(get_weather_begin([s EXCEPT !.city_input = outcome.data], t), t)

AppInit ==
    /\ history_file = NoFile
    /\ \E voice \in BOOLEAN : app = NewApp(history_file, voice)
    /\ tasks = <<>>
    /\ handed = 0
    /\ last_op = <<>>
    /\ ClassifierIdle
    /\ CallsIdle
    /\ FetchIdle

\* the user edits the city field (main.py 66-74)
TypeCity(c) ==
    /\ app.city_input # c
    /\ app' = [app EXCEPT !.city_input = c]
    /\ UNCHANGED <<tasks, history_file, handed, last_op>>
    /\ UNCHANGED <<classifierVars, callVars, fetchVars>>

\* the user ticks or unticks 'Show weather alerts' (main.py 111-114)
ToggleAlertsCheckbox ==
    /\ app' = [app EXCEPT !.alerts_checkbox = ~@]
    /\ UNCHANGED <<tasks, history_file, handed, last_op>>
    /\ UNCHANGED <<classifierVars, callVars, fetchVars>>

\* the user ticks or unticks 'Voice feedback' (main.py 104-108); the
\* checkbox is disabled without voice services
ToggleVoiceFeedback ==
    /\ app.voice_enabled
    /\ app' = [app EXCEPT !.voice_feedback_checkbox = ~@]
    /\ UNCHANGED <<tasks, history_file, handed, last_op>>
    /\ UNCHANGED <<classifierVars, callVars, fetchVars>>

\* main.py 281-300
toggle_units ==
    /\ IF app.current_weather_data = None
       THEN app' = show_error(app, <<"Please search for a city first">>)
       ELSE LET s1 == [app EXCEPT !.current_unit =
                                     IF @ = "metric" THEN "imperial" ELSE "metric"]
            IN IF RaisesIndexError(s1.current_weather_data)
               THEN \* display_weather raises (427); the handler ends here
                    app' = s1
               ELSE LET s2 == display_weather(s1, s1.current_weather_data)
                    IN IF Truthy(s2.current_weather_data)
                       THEN LET analysis == analyze_extreme_conditions(
                                                s2.current_weather_data, s2.current_unit)
                            IN app' = display_current_alerts(
                                          [s2 EXCEPT !.current_alerts = analysis.alerts])
                       ELSE app' = s2
    /\ UNCHANGED <<tasks, history_file, handed, last_op>>
    /\ UNCHANGED <<classifierVars, callVars, fetchVars>>

\* main.py 302-304
on_search ==
    /\ handed < MaxTasks
    /\ tasks' = Append(tasks, NewTask("get_weather"))
    /\ handed' = handed + 1
    /\ UNCHANGED <<app, history_file, last_op>>
    /\ UNCHANGED <<classifierVars, callVars, fetchVars>>

\* main.py 306-315; the button is disabled without voice services (93)
on_voice_search ==
    /\ app.voice_enabled
    /\ IF ~app.voice_enabled
       THEN app' = show_error(app, <<"Voice recognition not available">>)
            /\ UNCHANGED <<tasks, handed>>
       ELSE IF app.is_listening
            THEN UNCHANGED <<app, tasks, handed>>
            ELSE /\ handed < MaxTasks
                 /\ tasks' = Append(tasks, NewTask("voice_search"))
                 /\ handed' = handed + 1
                 /\ UNCHANGED app
    /\ UNCHANGED <<history_file, last_op>>
    /\ UNCHANGED <<classifierVars, callVars, fetchVars>>

\* coroutines start in the order they were handed to run_task
MayStart(i) ==
    /\ i \in DOMAIN tasks
    /\ tasks[i].pc = "scheduled"
    /\ \A j \in 1..(i - 1) : tasks[j].pc # "scheduled"

RemoveAt(seq, i) == SubSeq(seq, 1, i - 1) \o SubSeq(seq, i + 1, Len(seq))

\* the step r of task i takes effect; a coroutine that has ended leaves
\* the tasks, and last_op tells how it ended
Becomes(i, r) ==
    /\ app' = r.app
    /\ IF r.task.pc = "done"
       THEN /\ tasks' = RemoveAt(tasks, i)
            /\ last_op' = [op |-> r.task.kind, outcome |-> r.task.outcome]
       ELSE /\ tasks' = [tasks EXCEPT ![i] = r.task]
            /\ last_op' = [op |-> r.task.kind, outcome |-> "none"]
    /\ history_file' = save_history(history_file, app, r.app)
    /\ UNCHANGED handed
    /\ UNCHANGED <<classifierVars, callVars, fetchVars>>

\* main.py 354-369: a get_weather started by on_search runs to its await
GetWeatherStart(i) ==
    /\ MayStart(i)
    /\ tasks[i].kind = "get_weather"
    /\ Becomes(i, get_weather_begin(app, tasks[i]))

\* main.py 317-330: voice_search runs to the await of listen_for_city
VoiceSearchStart(i) ==
    /\ MayStart(i)
    /\ tasks[i].kind = "voice_search"
    /\ Becomes(i, [app |-> voice_search_begin(app),
                   task |-> [tasks[i] EXCEPT !.pc = "listening"]])

\* main.py 330-352: listen_for_city ends
Heard(i, outcome) ==
    /\ i \in DOMAIN tasks
    /\ tasks[i].pc = "listening"
    /\ Becomes(i, voice_search_heard(app, tasks[i], outcome))

\* main.py 373-413: the fetch ends
Fetched(i, outcome) ==
    /\ i \in DOMAIN tasks
    /\ tasks[i].pc = "fetching"
    /\ Becomes(i, Continue(get_weather_fetched(app, tasks[i], outcome), tasks[i]))

\* main.py 404-413: speak ends
Spoken(i) ==
    /\ i \in DOMAIN tasks
    /\ tasks[i].pc = "speaking"
    /\ Becomes(i, Continue(get_weather_spoken(app, tasks[i]), tasks[i]))

AppNext ==
    \/ \E c \in TypedCities : TypeCity(c)
    \/ ToggleAlertsCheckbox
    \/ ToggleVoiceFeedback
    \/ toggle_units
    \/ on_search
    \/ on_voice_search
    \/ \E i \in DOMAIN tasks : GetWeatherStart(i)
    \/ \E i \in DOMAIN tasks : VoiceSearchStart(i)
    \/ \E i \in DOMAIN tasks, o \in ListenOutcomes : Heard(i, o)
    \/ \E i \in DOMAIN tasks : \E o \in FetchOutcomes(tasks[i].city) : Fetched(i, o)
    \/ \E i \in DOMAIN tasks : Spoken(i)

AppSpec == AppInit /\ [][AppNext]_vars

\* a step of some coroutine: its start by the event loop, or the end of
\* the await it stands at
CoroutineStep ==
    \/ \E i \in DOMAIN tasks : GetWeatherStart(i)
    \/ \E i \in DOMAIN tasks : VoiceSearchStart(i)
    \/ \E i \in DOMAIN tasks, o \in ListenOutcomes : Heard(i, o)
    \/ \E i \in DOMAIN tasks : \E o \in FetchOutcomes(tasks[i].city) : Fetched(i, o)
    \/ \E i \in DOMAIN tasks : Spoken(i)

\* The application with its awaits ending: the event loop runs what it was
\* handed, listen_for_city is called with timeout=5 (main.py 330), the
\* HTTP client with timeout=self.timeout (weather_service.py 41), and
\* speak returns when the engine has spoken (voice_service.py 85-95).
AppFairSpec == AppSpec /\ WF_vars(CoroutineStep)

\* The voice path of the application: the clicks that hand over coroutines,
\* the voice feedback checkbox (it decides whether get_weather awaits
\* speak), and the coroutines.  Left out are the handlers that write
\* neither is_listening nor the tasks: the city field (voice_search sets it
\* and get_weather reads it in one step), the alerts checkbox and
\* toggle_units.
VoiceNext ==
    \/ ToggleVoiceFeedback
    \/ on_search
    \/ on_voice_search
    \/ CoroutineStep

VoiceFairSpec == AppInit /\ [][VoiceNext]_vars /\ WF_vars(CoroutineStep)

\* ------------------------------------------------------------------------
\* The search history alone: add_to_history called with any sequence of
\* cities, and the application started again on the file it saved.  Cities
\* are numbered in the order of their first search.

\* most add_to_history calls in one behaviour
MaxAdds == 13

City(n) == <<"city", n>>

HistoryInit ==
    /\ history_file = NoFile
    /\ app = NewApp(history_file, FALSE)
    /\ tasks = <<>>
    /\ handed = 0
    /\ last_op = [op |-> "load", adds |-> 0, cities |-> 0]
    /\ ClassifierIdle
    /\ CallsIdle
    /\ FetchIdle

\* main.py 620-625 with the city numbered n: one searched before, or the
\* next new one
AddToHistory(n) ==
    /\ last_op.adds < MaxAdds
    /\ n \in 1..(last_op.cities + 1)
    /\ app' = add_to_history(app, City(n))
    /\ history_file' = save_history(history_file, app, app')
    /\ last_op' = [op |-> "add", city |-> City(n), adds |-> last_op.adds + 1,
                   cities |-> IF n > last_op.cities THEN n ELSE last_op.cities]
    /\ UNCHANGED <<tasks, handed>>
    /\ UNCHANGED <<classifierVars, callVars, fetchVars>>

\* main.py 12-31, 602-610: the application is started again and loads the
\* history from the file
Restart ==
    /\ last_op.op = "add"
    /\ app' = NewApp(history_file, FALSE)
    /\ last_op' = [op |-> "load", adds |-> last_op.adds, cities |-> last_op.cities]
    /\ UNCHANGED <<tasks, history_file, handed>>
    /\ UNCHANGED <<classifierVars, callVars, fetchVars>>

HistoryNext ==
    \/ \E n \in 1..(MaxAdds + 1) : AddToHistory(n)
    \/ Restart

HistorySpec == HistoryInit /\ [][HistoryNext]_vars

\* ========================================================================
\* Properties

Done == pc = "done"
DoneReturned == pc = "done" /\ result.kind = "return"

\* the records of the given types, in list order
OfType(alerts, types) == SelectSeq(alerts, LAMBDA a : a.type \in types)

\* the <<type, severity>> pairs of a list, in list order
TypeSeverity(alerts) == [i \in DOMAIN alerts |-> <<alerts[i].type, alerts[i].severity>>]

\* the set of <<type, severity>> pairs of a list
TypeSeveritySet(alerts) == {<<alerts[i].type, alerts[i].severity>> : i \in DOMAIN alerts}

ConditionTypes == {"storm", "rain", "snow", "fog"}

\* whether the observation carries d[outer][key]
HasField(d, outer, key) == outer \in DOMAIN d /\ key \in DOMAIN d[outer]

\* whether the observation carries a first 'weather' element with an id
HasConditionId(d) ==
    /\ "weather" \in DOMAIN d
    /\ Len(d["weather"]) > 0
    /\ "id" \in DOMAIN d["weather"][1]

\* The normalisation as the specification words it: celsius = (value - 32) * 5/9
\* and mps = value / 2.237 for imperial input, the value itself for metric.
SpecCelsius(v, u) == IF u = "imperial" THEN Frac((v - 32 * Scale) * 5, 9) ELSE Frac(v, 1)
SpecMps(v, u) == IF u = "imperial" THEN Frac(v * 1000, 2237) ELSE Frac(v, 1)

\* a normalised value against a band edge k: at least k, at most k
AtLeast(r, k) == r.num >= k * Scale * r.den
AtMost(r, k) == r.num <= k * Scale * r.den

\* C1: analyze_extreme_conditions never raises: every call, whatever entries
\* or fields the observation lacks and also when its 'weather' list is
\* empty, ends by returning a list.
C1_NeverRaises == Done => result.kind = "return"

\* The observation with every absent numeric field set to 0 and an absent
\* condition id set to 800.
Defaulted(d) ==
    LET val(outer, key) == IF HasField(d, outer, key) THEN d[outer][key] ELSE 0
        rest == IF "weather" \in DOMAIN d /\ Len(d["weather"]) > 0
                THEN Tail(d["weather"]) ELSE <<>>
        id == IF HasConditionId(d) THEN d["weather"][1]["id"] ELSE 800
    IN [k \in {"main", "wind", "weather"} |->
          CASE k = "main" -> [j \in {"temp", "feels_like", "humidity"} |-> val("main", j)]
            [] k = "wind" -> [j \in {"speed"} |-> val("wind", j)]
            [] k = "weather" -> <<[j \in {"id"} |-> id]>> \o rest]

\* C2: missing fields are resolved to defaults before classification: the
\* call returns what it returns for the observation with each absent
\* numeric field set to 0 and an absent condition id set to 800.
C2_DefaultsResolved ==
    Done => result = analyze_extreme_conditions(Defaulted(data), unit)

\* Away from the empty 'weather' list the defaults are what the call uses.
DefaultsResolvedWhereReturned ==
    DoneReturned => result = analyze_extreme_conditions(Defaulted(data), unit)

\* C3: temperature group: on the Celsius-normalised temperature t, exactly
\* one 'temperature' record, high for t >= 35, moderate for 30 <= t < 35,
\* high for t <= -10, moderate for -10 < t <= 0, and none for 0 < t < 30.
C3_TemperatureBands ==
    DoneReturned =>
        LET t == SpecCelsius(temp_of(data), unit)
            recs == TypeSeverity(OfType(result.alerts, {"temperature"}))
        IN /\ AtLeast(t, 35) => recs = << <<"temperature", "high">> >>
           /\ AtLeast(t, 30) /\ ~AtLeast(t, 35) => recs = << <<"temperature", "moderate">> >>
           /\ AtMost(t, -10) => recs = << <<"temperature", "high">> >>
           /\ ~AtMost(t, -10) /\ AtMost(t, 0) => recs = << <<"temperature", "moderate">> >>
           /\ ~AtMost(t, 0) /\ ~AtLeast(t, 30) => recs = <<>>

\* an imperial call at exactly 95 F (35 C) has returned its one high record
C3_Witness ==
    /\ DoneReturned
    /\ unit = "imperial"
    /\ HasField(data, "main", "temp")
    /\ data["main"]["temp"] = 95 * Scale
    /\ TypeSeverity(OfType(result.alerts, {"temperature"})) = << <<"temperature", "high">> >>

\* C4: condition group: on the condition id c, exactly one record: storm/high
\* for 200 <= c < 300, rain/moderate for 500 <= c < 600 except 500 and 501,
\* snow for 600 <= c < 700 (moderate below 602, high from 602), fog/moderate
\* for 700 <= c < 800; no storm, rain, snow or fog record for any other c.
C4_ConditionBands ==
    DoneReturned =>
        LET c == weather_id_of(data)
            recs == TypeSeverity(OfType(result.alerts, ConditionTypes))
        IN /\ c \in 200..299 => recs = << <<"storm", "high">> >>
           /\ c \in 502..599 => recs = << <<"rain", "moderate">> >>
           /\ c \in 600..601 => recs = << <<"snow", "moderate">> >>
           /\ c \in 602..699 => recs = << <<"snow", "high">> >>
           /\ c \in 700..799 => recs = << <<"fog", "moderate">> >>
           /\ (c < 200 \/ c \in 300..499 \/ c \in {500, 501} \/ c >= 800) => recs = <<>>

\* a call on condition 602 has returned its high snow record
C4_Witness ==
    /\ DoneReturned
    /\ HasConditionId(data)
    /\ data["weather"][1]["id"] = 602
    /\ TypeSeverity(OfType(result.alerts, ConditionTypes)) = << <<"snow", "high">> >>

\* whether the observation carries a temperature, a feels-like temperature
\* and a wind speed
CarriesValues(d) ==
    /\ HasField(d, "main", "temp")
    /\ HasField(d, "main", "feels_like")
    /\ HasField(d, "wind", "speed")

\* The observation d with main.temp, main.feels_like and wind.speed replaced.
WithValues(d, t, f, w) ==
    [k \in DOMAIN d |->
        CASE k = "main" -> [j \in DOMAIN d[k] |->
                              CASE j = "temp" -> t [] j = "feels_like" -> f
                                [] OTHER -> d[k][j]]
          [] k = "wind" -> [j \in DOMAIN d[k] |-> w]
          [] OTHER -> d[k]]

\* the imperial observation with the exactly converted values
ImperialExact(d) ==
    WithValues(d, ToFahrenheit(d["main"]["temp"]), ToFahrenheit(d["main"]["feels_like"]),
               ToMph(d["wind"]["speed"]))

\* the imperial observation as the example writes it: the wind speed in mph
\* with one decimal (20 m/s against 44.7 mph)
ImperialAsWritten(d) ==
    WithValues(d, ToFahrenheit(d["main"]["temp"]), ToFahrenheit(d["main"]["feels_like"]),
               Round1(ToMph(d["wind"]["speed"])))

\* C5 as stated: unit equivalence with the imperial values of the example
\* (95 F and 44.7 mph for 35 C and 20 m/s): the metric call and the imperial
\* call return records with the same set of (type, severity) pairs.
C5_UnitEquivalenceAsWritten ==
    (DoneReturned /\ unit = "metric" /\ CarriesValues(data)) =>
        LET other == analyze_extreme_conditions(ImperialAsWritten(data), "imperial")
        IN /\ other.kind = "return"
           /\ TypeSeveritySet(other.alerts) = TypeSeveritySet(result.alerts)

\* C5 amended: unit equivalence when the imperial observation carries the
\* exactly converted values (F = C*9/5 + 32, mph = m/s * 2.237 unrounded, so
\* 44.74 mph for 20 m/s): the two calls return the same (type, severity) set.
C5_UnitEquivalenceExact ==
    (DoneReturned /\ unit = "metric" /\ CarriesValues(data)) =>
        LET other == analyze_extreme_conditions(ImperialExact(data), "imperial")
        IN /\ other.kind = "return"
           /\ TypeSeveritySet(other.alerts) = TypeSeveritySet(result.alerts)

\* the metric call on 35 C and 20 m/s has returned high temperature and high
\* wind records, and so does the imperial call on 95 F and 44.74 mph
C5_Witness ==
    /\ DoneReturned
    /\ unit = "metric"
    /\ CarriesValues(data)
    /\ data["main"]["temp"] = 35 * Scale
    /\ data["wind"]["speed"] = 20 * Scale
    /\ {<<"temperature", "high">>, <<"wind", "high">>} \subseteq TypeSeveritySet(result.alerts)
    /\ ImperialExact(data)["wind"]["speed"] = 4474 * (Scale \div 100)
    /\ ImperialExact(data) \in Observations("imperial")
    /\ {<<"temperature", "high">>, <<"wind", "high">>} \subseteq
          TypeSeveritySet(analyze_extreme_conditions(ImperialExact(data), "imperial").alerts)

\* C6: wind group: on the wind speed w in m/s (the input for metric, the
\* input / 2.237 for imperial), exactly one 'wind' record, high for w >= 20,
\* moderate for 10 <= w < 20, and none for w < 10.
C6_WindBands ==
    DoneReturned =>
        LET w == SpecMps(wind_speed_of(data), unit)
            recs == TypeSeverity(OfType(result.alerts, {"wind"}))
        IN /\ AtLeast(w, 20) => recs = << <<"wind", "high">> >>
           /\ AtLeast(w, 10) /\ ~AtLeast(w, 20) => recs = << <<"wind", "moderate">> >>
           /\ ~AtLeast(w, 10) => recs = <<>>

\* an imperial call at 44.7 mph (19.98 m/s) has returned one moderate record
C6_Witness ==
    /\ DoneReturned
    /\ unit = "imperial"
    /\ HasField(data, "wind", "speed")
    /\ data["wind"]["speed"] = Tenths(447)
    /\ TypeSeverity(OfType(result.alerts, {"wind"})) = << <<"wind", "moderate">> >>

\* C7: feels-like group: on the Celsius-normalised feels-like f, exactly one
\* 'feels_like' record, of severity high, for f >= 40 or f <= -20, and none
\* for -20 < f < 40; never a moderate one.
C7_FeelsLikeBands ==
    DoneReturned =>
        LET f == SpecCelsius(feels_like_of(data), unit)
            recs == TypeSeverity(OfType(result.alerts, {"feels_like"}))
        IN /\ (AtLeast(f, 40) \/ AtMost(f, -20)) => recs = << <<"feels_like", "high">> >>
           /\ (~AtLeast(f, 40) /\ ~AtMost(f, -20)) => recs = <<>>
           /\ <<"feels_like", "moderate">> \notin TypeSeveritySet(result.alerts)

\* an imperial call at exactly -4 F (-20 C) has returned its one high record
C7_Witness ==
    /\ DoneReturned
    /\ unit = "imperial"
    /\ HasField(data, "main", "feels_like")
    /\ data["main"]["feels_like"] = (-4) * Scale
    /\ TypeSeverity(OfType(result.alerts, {"feels_like"})) = << <<"feels_like", "high">> >>

\* C8: humidity group: on a humidity h in 0..100, with either unit, exactly
\* one 'humidity' record, of severity moderate, for h >= 90 or h <= 20, and
\* none for 20 < h < 90; never a high one.
C8_HumidityBands ==
    DoneReturned =>
        LET h == humidity_of(data)
            recs == TypeSeverity(OfType(result.alerts, {"humidity"}))
        IN h \in 0..100 =>
            /\ (h >= 90 \/ h <= 20) => recs = << <<"humidity", "moderate">> >>
            /\ (h > 20 /\ h < 90) => recs = <<>>
            /\ <<"humidity", "high">> \notin TypeSeveritySet(result.alerts)

\* a call at exactly 90 % has returned its one moderate record
C8_Witness ==
    /\ DoneReturned
    /\ HasField(data, "main", "humidity")
    /\ data["main"]["humidity"] = 90
    /\ TypeSeverity(OfType(result.alerts, {"humidity"})) = << <<"humidity", "moderate">> >>

\* the five groups, as the sets of record types each can emit
Groups == {{"temperature"}, {"feels_like"}, {"humidity"}, {"wind"}, ConditionTypes}

\* The observation that keeps only the named part of d (a key of 'main', the
\* wind speed or the 'weather' list, present or absent as in d) and carries
\* normal values everywhere else: 20 C, 50 %, 2 m/s, condition 800.
Isolate(d, u, part) ==
    LET normal(j) == CASE j = "temp" -> IF u = "imperial" THEN 68 * Scale ELSE 20 * Scale
                       [] j = "feels_like" -> IF u = "imperial" THEN 68 * Scale ELSE 20 * Scale
                       [] j = "humidity" -> 50
                       [] j = "speed" -> IF u = "imperial" THEN ToMph(2 * Scale) ELSE 2 * Scale
        inner(outer, keys) ==
            [j \in {x \in keys : x # part \/ HasField(d, outer, x)} |->
                IF j = part THEN d[outer][j] ELSE normal(j)]
        keep == {"main", "wind"} \cup
                (IF part = "weather" /\ "weather" \notin DOMAIN d THEN {} ELSE {"weather"})
    IN [k \in keep |->
          CASE k = "main" -> inner("main", {"temp", "feels_like", "humidity"})
            [] k = "wind" -> inner("wind", {"speed"})
            [] k = "weather" -> IF part = "weather" THEN d[k] ELSE <<[j \in {"id"} |-> 800]>>]

\* the part of the observation a group reads
PartOf(group) ==
    CASE group = {"temperature"} -> "temp"
      [] group = {"feels_like"} -> "feels_like"
      [] group = {"humidity"} -> "humidity"
      [] group = {"wind"} -> "speed"
      [] group = ConditionTypes -> "weather"

\* C9: groups fire independently and at most once each: at most one record
\* from each of the five groups, at most 5 records, no two of the same type;
\* the record a group contributes depends only on that group's own field and
\* the unit (it is the one returned when every other field is normal); and
\* 36 C, humidity 95, 25 m/s, condition 202 with a normal feels-like yields
\* exactly the four records temperature, humidity, wind, storm.
C9_GroupsIndependent ==
    DoneReturned =>
        /\ \A g \in Groups : Len(OfType(result.alerts, g)) <= 1
        /\ Len(result.alerts) <= 5
        /\ \A i, j \in DOMAIN result.alerts :
              result.alerts[i].type = result.alerts[j].type => i = j
        /\ \A g \in Groups :
              LET alone == analyze_extreme_conditions(Isolate(data, unit, PartOf(g)), unit)
              IN /\ alone.kind = "return"
                 /\ OfType(alone.alerts, g) = OfType(result.alerts, g)
        /\ ( /\ unit = "metric"
             /\ temp_of(data) = 36 * Scale
             /\ SpecCelsius(feels_like_of(data), unit) = Frac(20 * Scale, 1)
             /\ humidity_of(data) = 95
             /\ wind_speed_of(data) = 25 * Scale
             /\ weather_id_of(data) = 202 )
           => /\ Len(result.alerts) = 4
              /\ {a[1] : a \in TypeSeveritySet(result.alerts)}
                    = {"temperature", "humidity", "wind", "storm"}

\* the call on 36 C, feels-like 20 C, 95 %, 25 m/s, condition 202 has returned
C9_Witness ==
    /\ DoneReturned
    /\ unit = "metric"
    /\ data = [main |-> [temp |-> 36 * Scale, feels_like |-> 20 * Scale, humidity |-> 95],
               wind |-> [speed |-> 25 * Scale],
               weather |-> <<[id |-> 202]>>]
    /\ TypeSeverity(result.alerts) = << <<"temperature", "high">>, <<"humidity", "moderate">>,
                                       <<"wind", "high">>, <<"storm", "high">> >>

\* the position of a record type in the evaluation order of the groups
GroupRank(type) ==
    CASE type = "temperature" -> 1
      [] type = "feels_like" -> 2
      [] type = "humidity" -> 3
      [] type = "wind" -> 4
      [] type \in ConditionTypes -> 5

\* C10: output ordering: the records of every returned list appear in the
\* order temperature, feels_like, humidity, wind, condition record, whatever
\* their severities.
C10_EvaluationOrder ==
    DoneReturned =>
        \A i, j \in DOMAIN result.alerts :
            i < j => GroupRank(result.alerts[i].type) < GroupRank(result.alerts[j].type)

\* a returned list in which a moderate record precedes a high record
C10_Witness ==
    /\ DoneReturned
    /\ \E i, j \in DOMAIN result.alerts :
          /\ i < j
          /\ result.alerts[i].severity = "moderate"
          /\ result.alerts[j].severity = "high"

\* every measurement normal: no group's band is entered
AllNormal(d, u) ==
    LET t == SpecCelsius(temp_of(d), u)
        f == SpecCelsius(feels_like_of(d), u)
        h == humidity_of(d)
        w == SpecMps(wind_speed_of(d), u)
        c == weather_id_of(d)
    IN /\ ~AtMost(t, 0) /\ ~AtLeast(t, 30)
       /\ ~AtMost(f, -20) /\ ~AtLeast(f, 40)
       /\ h > 20 /\ h < 90
       /\ ~AtLeast(w, 10)
       /\ c \notin (200..299) \cup (502..599) \cup (600..799)

\* C11: whenever 0 < temp_c < 30, -20 < feels_c < 40, 20 < humidity < 90,
\* wind_mps < 10 and the condition id lies in no alert band (so for 20 C,
\* 20 C, 50 %, 2 m/s, condition 800), the call returns the empty list; and
\* it returns the empty list only in that case.
C11_EmptyIffNormal ==
    DoneReturned => (result.alerts = <<>> <=> AllNormal(data, unit))

\* the call on 20 C, feels-like 20 C, 50 %, 2 m/s, condition 800 has
\* returned the empty list
C11_Witness ==
    /\ DoneReturned
    /\ unit = "metric"
    /\ data = [main |-> [temp |-> 20 * Scale, feels_like |-> 20 * Scale, humidity |-> 50],
               wind |-> [speed |-> 2 * Scale],
               weather |-> <<[id |-> 800]>>]
    /\ result.alerts = <<>>

\* whether the tenths count n is the measurement v given to one decimal
IsOneDecimalOf(n, v) ==
    LET diff == n * (Scale \div 10) - v
    IN diff <= Scale \div 20 /\ diff >= -(Scale \div 20)

\* whether the tenths count n is the normalised value r given to one decimal
IsOneDecimalOfFrac(n, r) ==
    LET diff == n * (Scale \div 10) * r.den - r.num
    IN diff <= (Scale \div 20) * r.den /\ diff >= -((Scale \div 20) * r.den)

\* C12: the description of every temperature, feels_like and wind record
\* carries the caller's own value (to one decimal, as it is printed) and the
\* caller's unit symbol: F and mph for imperial, C and m/s for metric; for
\* an imperial input it is never the Celsius or m/s value computed from it.
C12_DescriptionEchoesInput ==
    DoneReturned =>
        \A i \in DOMAIN result.alerts :
            LET a == result.alerts[i]
                temps == a.type \in {"temperature", "feels_like"}
                input == CASE a.type = "temperature" -> temp_of(data)
                           [] a.type = "feels_like" -> feels_like_of(data)
                           [] a.type = "wind" -> wind_speed_of(data)
                           [] OTHER -> 0
                norm == IF temps THEN SpecCelsius(input, unit) ELSE SpecMps(input, unit)
            IN a.type \in {"temperature", "feels_like", "wind"} =>
                 /\ IsOneDecimalOf(a.description.value, input)
                 /\ a.description.symbol =
                       (IF unit = "imperial" THEN (IF temps THEN "F" ELSE "mph")
                        ELSE (IF temps THEN "C" ELSE "m/s"))
                 /\ unit = "imperial" => ~IsOneDecimalOfFrac(a.description.value, norm)

\* an imperial call at 95 F and 44.74 mph has returned records that say
\* 95.0 F and 44.7 mph
C12_Witness ==
    /\ DoneReturned
    /\ unit = "imperial"
    /\ temp_of(data) = 95 * Scale
    /\ wind_speed_of(data) = 4474 * (Scale \div 100)
    /\ \E i, j \in DOMAIN result.alerts :
          /\ result.alerts[i].type = "temperature"
          /\ result.alerts[i].description = Desc("Temperature is", 950, "F")
          /\ result.alerts[j].type = "wind"
          /\ result.alerts[j].description = Desc("Wind speed is", 447, "mph")

\* ------------------------------------------------------------------------
\* C13

\* the calls that returned
ReturnedCalls == {i \in DOMAIN calls : calls[i].outcome.kind = "return"}

\* C13: two calls with the same observation and unit, whatever calls and
\* whatever changes to earlier results lie between them, have the same
\* outcome (structurally equal lists, or the same exception); every call
\* that returns hands out a list object no earlier call handed out; the
\* observation objects are as the callers made them.
C13_IdempotentAndPure ==
    /\ \A i, j \in DOMAIN calls :
          (calls[i].obs = calls[j].obs /\ calls[i].unit = calls[j].unit)
              => calls[i].outcome = calls[j].outcome
    /\ \A i, j \in ReturnedCalls : i # j => calls[i].ref # calls[j].ref
    /\ \A i \in DOMAIN calls : observations[calls[i].obs] = calls[i].data
    /\ observations = CallObservations

\* the same observation classified twice with a non-empty result, the
\* first list changed by its caller, the second as it was returned
C13_Witness ==
    \E i, j \in ReturnedCalls :
        /\ i < j
        /\ calls[i].obs = calls[j].obs /\ calls[i].unit = calls[j].unit
        /\ calls[j].outcome.alerts # <<>>
        /\ heap[calls[i].ref] # calls[i].outcome.alerts
        /\ heap[calls[j].ref] = calls[j].outcome.alerts

\* ------------------------------------------------------------------------
\* C14

FetchDone == fetch_pc = "done"

\* the first part of the message of the WeatherServiceError raised
RaisedKind(prefix) ==
    /\ fetch_result.kind = "raise"
    /\ fetch_result.exc.type = "WeatherServiceError"
    /\ fetch_result.exc.message[1] = prefix

\* C14: a finished fetch returned a dict or raised WeatherServiceError.  A
\* city that is empty or all whitespace raises 'cannot be empty' with no
\* request sent; otherwise one request was sent, and status 404 gives 'not
\* found', any other status outside 2xx 'API error', a transport failure
\* 'Request failed', any other exception 'Unexpected error'; a dict is
\* returned only on a 2xx response whose body parsed.
C14_FetchErrors ==
    FetchDone =>
        /\ \/ fetch_result.kind = "return"
           \/ fetch_result.kind = "raise" /\ fetch_result.exc.type = "WeatherServiceError"
        /\ IF \A i \in DOMAIN city : city[i] = " "
           THEN RaisedKind("City name cannot be empty") /\ sent = <<>>
           ELSE /\ Len(sent) = 1
                /\ response.kind = "response" /\ response.status = 404
                       => RaisedKind("City '")
                /\ response.kind = "response" /\ response.status \notin (200..299) \cup {404}
                       => RaisedKind("API error: ")
                /\ response.kind = "RequestError" => RaisedKind("Request failed: ")
                /\ response.kind = "Exception" => RaisedKind("Unexpected error: ")
                /\ fetch_result.kind = "return"
                       => /\ response.kind = "response"
                          /\ response.status \in 200..299
                          /\ response.json

\* a padded city, requested by its stripped name and answered with 404
C14_Witness ==
    /\ FetchDone
    /\ city = <<" ", "a", " ">>
    /\ sent = <<[q |-> <<"a">>]>>
    /\ response.kind = "response" /\ response.status = 404
    /\ fetch_result = Raised(WeatherServiceError(<<"City '", city, "' not found">>))

\* ------------------------------------------------------------------------
\* C15

\* the voice_search coroutines handed to run_task and not yet ended
VoiceSearches == {i \in DOMAIN tasks : tasks[i].kind = "voice_search"}

\* C15: at most one voice_search is pending or running at any time, and so
\* at most one listen and one voice-triggered fetch.
C15_VoiceSearchExclusive == Cardinality(VoiceSearches) <= 1

\* ------------------------------------------------------------------------
\* C16

\* a step of toggle_units that changed the unit
UnitToggled == app'.current_unit # app.current_unit

\* the temperature records name the temperature the weather card shows
DescriptionsMatchCard(s) ==
    \A i \in DOMAIN s.current_alerts :
        s.current_alerts[i].type = "temperature"
            => /\ s.current_alerts[i].description.value = s.weather_content.value
               /\ s.current_alerts[i].description.symbol = s.weather_content.symbol

\* C16: a toggle of the unit leaves the sequence of (type, severity) pairs
\* of current_alerts as it was, and afterwards every temperature record
\* names the temperature that display_weather shows.
C16_ToggleKeepsClassification ==
    [][UnitToggled =>
          /\ TypeSeverity(app'.current_alerts) = TypeSeverity(app.current_alerts)
          /\ DescriptionsMatchCard(app')]_vars

\* ------------------------------------------------------------------------
\* C17

\* no coroutine in progress (the plain handlers are single steps)
Quiescent == tasks = <<>>

\* the same records, whatever their order
SameRecords(a, b) == Len(a) = Len(b) /\ Range(a) = Range(b)

\* C17: in every quiescent state with weather data loaded, current_alerts
\* holds exactly the records analyze_extreme_conditions returns for
\* current_weather_data and current_unit; without data it is empty.
C17_AlertsMatchData ==
    Quiescent =>
        IF app.current_weather_data = None
        THEN app.current_alerts = <<>>
        ELSE LET analysis == analyze_extreme_conditions(app.current_weather_data,
                                                        app.current_unit)
             IN /\ analysis.kind = "return"
                /\ SameRecords(app.current_alerts, analysis.alerts)

\* ------------------------------------------------------------------------
\* C18

\* the alerts of the banners shown, in display order
BannerAlerts == [i \in 1..(Len(app.controls) - 1) |-> app.controls[i + 1].alert]

\* while the alerts are shown: a header, then one banner per alert, every
\* high record before every moderate one, and records of equal severity
\* in classification order
C18_BannersSorted ==
    app.alerts_container =>
        /\ app.controls # <<>> /\ app.controls[1] = Header
        /\ SameRecords(BannerAlerts, app.current_alerts)
        /\ \A i, j \in DOMAIN BannerAlerts :
              i < j =>
                  /\ ~(BannerAlerts[i].severity = "moderate"
                       /\ BannerAlerts[j].severity = "high")
                  /\ BannerAlerts[i].severity = BannerAlerts[j].severity
                         => GroupRank(BannerAlerts[i].type) < GroupRank(BannerAlerts[j].type)

\* current_alerts is in classification (evaluation) order
C18_ListInClassificationOrder ==
    \A i, j \in DOMAIN app.current_alerts :
        i < j => GroupRank(app.current_alerts[i].type)
                     < GroupRank(app.current_alerts[j].type)

\* C18: display_alerts shows the banners sorted by severity and leaves the
\* list it was passed, current_alerts, in classification order.
C18_PresenterLeavesList == C18_BannersSorted /\ C18_ListInClassificationOrder

\* ------------------------------------------------------------------------
\* C20

\* the data state of the application
DataState(s) ==
    <<s.current_weather_data, s.current_alerts, s.current_unit, s.search_history>>

\* a step in which a get_weather passes its validation and starts to fetch
BeginsFetch ==
    /\ Len(tasks') = Len(tasks)
    /\ \E i \in DOMAIN tasks :
          /\ tasks[i].pc \in {"scheduled", "listening"}
          /\ tasks'[i].pc = "fetching"

\* a step in which a coroutine ends, its get_weather having ended as 'how'
Ends(how) == Len(tasks') < Len(tasks) /\ last_op'.outcome \in how

FailedEnds == Ends({"empty_city", "service_error"})

\* a get_weather other than the one that ends in this step is still between
\* its validation and its return
SearchInFlight == \E i \in DOMAIN tasks' : tasks'[i].pc \in {"fetching", "speaking"}

\* a step that adds a city to the history is the step in which the fetch
\* for that city has just succeeded
HistoryOnlyAfterFetch ==
    app'.search_history # app.search_history =>
        \E i \in DOMAIN tasks :
            /\ tasks[i].pc = "fetching"
            /\ app'.search_history[1] = tasks[i].city
            /\ app'.current_weather_data \in AppObservations
            /\ last_op'.outcome \in {"ok", "none"}

\* what a failed get_weather leaves behind, the loading indicator apart
FailedSearchFrame ==
    /\ BeginsFetch => DataState(app') = DataState(app) /\ history_file' = history_file
    /\ FailedEnds =>
          /\ DataState(app') = DataState(app) /\ history_file' = history_file
          /\ app'.error_message
          /\ ~app'.weather_container
          /\ ~app'.alerts_container
    /\ HistoryOnlyAfterFetch

NoDuplicates(seq) == \A i, j \in DOMAIN seq : i # j => seq[i] # seq[j]

\* a step of add_to_history
Added == last_op'.op = "add"

\* C19: the history never has more than ten entries nor a city twice.  A
\* call with a city already present leaves the list unchanged; a call with
\* a new city puts it at index 0 in front of the entries there were, and
\* when there were ten already the last of them, the oldest, is dropped.
C19_HistoryInvariant ==
    [][/\ Len(app'.search_history) <= 10
       /\ NoDuplicates(app'.search_history)
       /\ Added =>
             LET c == last_op'.city
                 old == app.search_history
                 new == app'.search_history
             IN IF \E i \in DOMAIN old : old[i] = c
                THEN new = old
                ELSE /\ new[1] = c
                     /\ IF Len(old) < 10
                        THEN new = <<c>> \o old
                        ELSE new = <<c>> \o SubSeq(old, 1, 9)]_vars

\* the eleventh distinct city has just been added to a full history: it
\* is in front and the first city searched is gone
C19_Witness ==
    /\ last_op.op = "add" /\ last_op.city = City(11) /\ last_op.adds = 11
    /\ Len(app.search_history) = 10
    /\ app.search_history[1] = City(11)
    /\ app.search_history[10] = City(2)
    /\ \A i \in DOMAIN app.search_history : app.search_history[i] # City(1)

\* ------------------------------------------------------------------------
\* C21

\* a step in which a voice_search ends
VoiceSearchEnds == Len(tasks') < Len(tasks) /\ last_op'.op = "voice_search"

\* the voice_search coroutines that have started to run
VoiceSearchesRunning == {i \in VoiceSearches : tasks[i].pc # "scheduled"}

\* C21: the step in which a voice_search ends, however it ends, leaves
\* is_listening False and the microphone icon restored, so that the next
\* click on the voice button passes the guard of on_voice_search; the flag
\* is True only while a voice_search runs; and whenever the flag is True it
\* is False again later.
C21_ListeningReleased ==
    /\ [][VoiceSearchEnds =>
              /\ ~app'.is_listening
              /\ app'.voice_button = "MIC"
              /\ app'.voice_enabled]_vars
    /\ [](app.is_listening => VoiceSearchesRunning # {})
    /\ [](app.is_listening => <>(~app.is_listening /\ app.voice_button = "MIC"))

\* a voice search whose city was heard and whose fetch then failed has
\* ended: the flag is released
C21_Witness ==
    /\ tasks = <<>>
    /\ last_op = [op |-> "voice_search", outcome |-> "service_error"]
    /\ app.city_input \in HeardCities
    /\ ~app.is_listening
    /\ app.voice_button = "MIC"

====
